---- MODULE Spec2Model ----
(***************************************************************************)
(* A model of the transaction simulator of src/utils/simulate.rs and of    *)
(* the native-token profit analysis of src/utils/simulate/state/eth.rs.    *)
(*                                                                         *)
(*   AnalyzeAccountDiff::run   classifies one account's state diff         *)
(*   Simulate::get_valuable_trace / state::eth::run   detect a profit      *)
(*   Simulate::trace_to_tx     rebuilds the call plan from a flat trace    *)
(*   Simulate::parse_tx_trace, mock_tx_data   rewrite one trace entry      *)
(*   Simulate::run             the orchestrator                            *)
(***************************************************************************)
EXTENDS Integers, Sequences, FiniteSets, TLC

VARIABLES
    pc,                 \* position of the running function
    contract,           \* Simulate.contract : Option<Address>
    rewind,             \* argument of Simulate::run
    tx,                 \* Option<Transaction> returned by get_transaction
    block,              \* Option<BlockNumber> handed to trace_call
    trace,              \* Option<BlockTrace> returned by trace_call
    from_account_diff,  \* analysis of the sender's diff
    to_account_diff,    \* analysis of the receiver's diff
    valuable,           \* what get_valuable_trace returns (profit only)
    eth_profit,         \* what state::eth::run returns
    trace_map,          \* HashMap<usize, &TransactionTrace> of trace_to_tx
    tx_queue,           \* Vec<Vec<TransactionRequest>> of trace_to_tx
    result,             \* what Simulate::run returns
    a_diff,             \* AnalyzeAccountDiff::run: its diff argument
    a_nonce,            \* AnalyzeAccountDiff::run: its nonce argument
    a_out,              \* AnalyzeAccountDiff::run: its return value
    m_data,             \* mock_tx_data: its data argument
    m_from,             \* mock_tx_data: its from argument
    m_to,               \* mock_tx_data: its to argument
    m_out               \* mock_tx_data: its return value

vars == << pc, contract, rewind, tx, block, trace,
           from_account_diff, to_account_diff, valuable, eth_profit,
           trace_map, tx_queue, result,
           a_diff, a_nonce, a_out, m_data, m_from, m_to, m_out >>

(***************************************************************************)
(* Bounds of the model.                                                    *)
(***************************************************************************)
\* balances of the enumerated diffs range over 0..MaxBal
MaxBal == 2
\* nonces of the enumerated diffs and transactions range over 0..MaxNonce
MaxNonce == 1
\* a trace fed to trace_to_tx has at most MaxNodes entries
MaxNodes == 5
\* a trace returned to Simulate::run has at most MaxRunNodes entries
MaxRunNodes == 2
\* a mined transaction sits in block 0..MaxBlock
MaxBlock == 1

(***************************************************************************)
(* Option<T>                                                               *)
(***************************************************************************)
None == [some |-> FALSE]

Some(v) == [some |-> TRUE, val |-> v]

unwrap_or(o, d) == IF o.some THEN o.val ELSE d

(***************************************************************************)
(* Addresses are 20 bytes.                                                 *)
(***************************************************************************)
AddressBytes == 20

\* the address whose 20 bytes all equal b
RepAddr(b) == [i \in 1..AddressBytes |-> b]

\* the address made of the 4-byte word w repeated five times
WordAddr(w) == [i \in 1..AddressBytes |-> w[((i - 1) % 4) + 1]]

SenderAddr == RepAddr(161)

ReceiverAddr == RepAddr(178)

SignerAddr == RepAddr(195)

ContractAddr == RepAddr(204)

(***************************************************************************)
(* Diff<T> of the trace's state diff: Same, Born, Died, Changed{from,to}.  *)
(***************************************************************************)
Same == [kind |-> "Same"]

Born(v) == [kind |-> "Born", val |-> v]

Died(v) == [kind |-> "Died", val |-> v]

Changed(f, t) == [kind |-> "Changed", from |-> f, to |-> t]

DiffsOver(S) ==
    {Same} \cup {Born(v) : v \in S} \cup {Died(v) : v \in S}
           \cup {Changed(f, t) : f \in S, t \in S}

\* AccountDiff: only the fields the analysis reads
AccountDiff(b, n) == [balance |-> b, nonce |-> n]

\* U256::abs_diff: the larger minus the smaller, which cannot overflow
abs_diff(a, b) == IF a > b THEN a - b ELSE b - a

(***************************************************************************)
(* AnalyzeAccountDiff::run                                                 *)
(***************************************************************************)
\* variant: the nonce diff is never read
AnalyzeAccountDiff_run_NoNonceCheck(diff, nonce) ==
    [ increase_balance |->
          IF diff.balance.kind = "Changed"
          THEN diff.balance.to > diff.balance.from ELSE FALSE,
      balance_diff |->
          IF diff.balance.kind = "Changed"
          THEN abs_diff(diff.balance.from, diff.balance.to) ELSE 0,
      invalid_nonce |-> FALSE ]

\* variant: to >= from counts as an increase and a decrease has magnitude 0
AnalyzeAccountDiff_run_Signed(diff, nonce) ==
    [ increase_balance |->
          IF diff.balance.kind = "Changed"
          THEN diff.balance.to >= diff.balance.from ELSE FALSE,
      balance_diff |->
          IF diff.balance.kind = "Changed" /\ diff.balance.to > diff.balance.from
          THEN diff.balance.to - diff.balance.from ELSE 0,
      invalid_nonce |->
          IF diff.nonce.kind = "Changed"
          THEN diff.nonce.from # unwrap_or(nonce, diff.nonce.from)
          ELSE FALSE ]

\* lines 15-34
AnalyzeAccountDiff_run(diff, nonce) ==
    [ increase_balance |->
          IF diff.balance.kind = "Changed"
          THEN diff.balance.to > diff.balance.from ELSE FALSE,
      balance_diff |->
          IF diff.balance.kind = "Changed"
          THEN abs_diff(diff.balance.from, diff.balance.to) ELSE 0,
      invalid_nonce |->
          IF diff.nonce.kind = "Changed"
          THEN diff.nonce.from # unwrap_or(nonce, diff.nonce.from)
          ELSE FALSE ]

\* DiffAnalysis::init of state/base.rs, which eth.rs calls: the analyzer
\* contract (increased, magnitude, nonceInvalid)
DiffAnalysis_init(diff, nonce) ==
    [ increase_balance |->
          diff.balance.kind = "Changed" /\ diff.balance.to > diff.balance.from,
      balance_diff |->
          IF diff.balance.kind = "Changed"
          THEN abs_diff(diff.balance.to, diff.balance.from) ELSE 0,
      invalid_nonce |->
          /\ nonce.some
          /\ diff.nonce.kind = "Changed"
          /\ diff.nonce.from # nonce.val ]

\* value of a variable the run has not assigned yet
Unset == [set |-> FALSE]

(***************************************************************************)
(* Hex text of bytes: format!("{:x}") and str::parse::<Bytes>.             *)
(***************************************************************************)
HexChars == << "0", "1", "2", "3", "4", "5", "6", "7",
               "8", "9", "a", "b", "c", "d", "e", "f" >>

\* hex::encode: two lowercase digits per byte
RECURSIVE HexEncode(_)
HexEncode(bytes) ==
    IF bytes = << >> THEN << >>
    ELSE << HexChars[(bytes[1] \div 16) + 1], HexChars[(bytes[1] % 16) + 1] >>
         \o HexEncode(Tail(bytes))

\* format!("{data:x}") of Bytes: "0x" and the digits
FormatBytes(data) == << "0", "x" >> \o HexEncode(data)

\* format!("{from:x}") of an Address: the 40 digits, no prefix
FormatAddress(addr) == HexEncode(addr)

HexVal(c) == CHOOSE n \in 0..15 : HexChars[n + 1] = c

IsHex(s) == \A i \in 1..Len(s) : \E n \in 0..15 : HexChars[n + 1] = s[i]

StripPrefix(s) ==
    IF Len(s) >= 2 /\ s[1] = "0" /\ s[2] = "x" THEN SubSeq(s, 3, Len(s)) ELSE s

\* str::parse::<Bytes>: optional "0x", then hex::decode
ParseBytes(s) ==
    LET h == StripPrefix(s)
    IN  IF Len(h) % 2 = 0 /\ IsHex(h)
        THEN Some([i \in 1..(Len(h) \div 2) |->
                      16 * HexVal(h[2 * i - 1]) + HexVal(h[2 * i])])
        ELSE None

\* pat occurs in s at position i
MatchAt(s, i, pat) == \A k \in 1..Len(pat) : s[i + k - 1] = pat[k]

\* str::replace from position i on: every non-overlapping match of pat,
\* left to right
RECURSIVE ReplaceFrom(_, _, _, _)
ReplaceFrom(s, i, pat, rep) ==
    IF i + Len(pat) - 1 > Len(s) THEN SubSeq(s, i, Len(s))
    ELSE IF MatchAt(s, i, pat)
         THEN rep \o ReplaceFrom(s, i + Len(pat), pat, rep)
         ELSE << s[i] >> \o ReplaceFrom(s, i + 1, pat, rep)

Replace(s, pat, rep) == ReplaceFrom(s, 1, pat, rep)

(***************************************************************************)
(* mock_tx_data                                                            *)
(***************************************************************************)
mock_tx_data(data, from, to) ==
    ParseBytes(Replace(FormatBytes(data), FormatAddress(from),
                       FormatAddress(to))).val

(***************************************************************************)
(* Simulate::parse_tx_trace                                                *)
(***************************************************************************)
parse_tx_trace(entry, contract_) ==
    IF entry.action.type = "Call"
    THEN Some([ chain_id  |-> None,
                from      |-> Some(SignerAddr),
                to        |-> Some(entry.action.to),
                data      |-> Some(mock_tx_data(entry.action.input,
                                                entry.action.from,
                                                unwrap_or(contract_, SignerAddr))),
                value     |-> Some(entry.action.value),
                gas       |-> None,
                gas_price |-> None,
                nonce     |-> None ])
    ELSE IF entry.action.type = "Create"
    THEN Some([ chain_id  |-> None,
                from      |-> Some(SignerAddr),
                to        |-> None,
                data      |-> Some(mock_tx_data(entry.action.init,
                                                entry.action.from,
                                                unwrap_or(contract_, SignerAddr))),
                value     |-> Some(entry.action.value),
                gas       |-> None,
                gas_price |-> None,
                nonce     |-> None ])
    ELSE None

(***************************************************************************)
(* Simulate::trace_to_tx: the key of a trace address and the key map       *)
(***************************************************************************)
RECURSIVE Pow2(_)
Pow2(i) == IF i = 0 THEN 1 ELSE 2 * Pow2(i - 1)

\* for (i, v) in trace_address.iter().rev().enumerate():
\*     trace_key += v * 2^i + 1
RECURSIVE KeySum(_, _)
KeySum(path, i) ==
    IF i >= Len(path) THEN 0
    ELSE path[Len(path) - i] * Pow2(i) + 1 + KeySum(path, i + 1)

\* variant: the + 1 of each step is left out
TraceKey_NoOffset(path) == KeySum(path, 0) - Len(path)

\* lines 124-127. The sum is a usize; at the depths of the model (below 64)
\* neither 2^i nor the sum overflows.
TraceKey(path) == KeySum(path, 0)

\* variant: the first entry of a key is kept
MapInsert_KeepFirst(map, key, entry) ==
    [k \in (DOMAIN map) \cup {key} |-> IF k \in DOMAIN map THEN map[k] ELSE entry]

\* HashMap::insert: a later entry replaces an earlier one with the same key
MapInsert(map, key, entry) ==
    [k \in (DOMAIN map) \cup {key} |-> IF k = key THEN entry ELSE map[k]]

RECURSIVE InsertFrom(_, _, _)
InsertFrom(map, list, i) ==
    IF i > Len(list) THEN map
    ELSE InsertFrom(MapInsert(map, TraceKey(list[i].trace_address), list[i]),
                    list, i + 1)

EmptyMap == [k \in {} |-> None]

BuildTraceMap(list) == InsertFrom(EmptyMap, list, 1)

\* the rewritten entries of keys i..n, in key order, the untranslatable skipped
RECURSIVE InternalTxList(_, _, _, _)
InternalTxList(map, i, n, contract_) ==
    IF i > n THEN << >>
    ELSE LET r == parse_tx_trace(map[i], contract_)
         IN  (IF r.some THEN << r.val >> ELSE << >>)
             \o InternalTxList(map, i + 1, n, contract_)

(***************************************************************************)
(* The traces a node returns: the entries of a call tree in depth-first    *)
(* pre-order, each with its address and the number of its children.        *)
(***************************************************************************)
\* the addresses that may follow p in pre-order: its first child, or the
\* next sibling of p or of one of its ancestors
NextPaths(p) ==
    {Append(p, 0)} \cup
    {[j \in 1..k |-> IF j = k THEN p[j] + 1 ELSE p[j]] : k \in 1..Len(p)}

RECURSIVE PreOrders(_)
PreOrders(n) ==
    IF n = 1 THEN {<< << >> >>}
    ELSE UNION {{Append(s, q) : q \in NextPaths(s[n - 1])} : s \in PreOrders(n - 1)}

IsChildOf(q, p) == Len(q) = Len(p) + 1 /\ SubSeq(q, 1, Len(p)) = p

Selector == << 0, 0, 0, 1 >>

ActionTypes == {"Call", "Create", "Suicide"}

\* the action of entry i: the root is called by the sender, the others by the
\* callee; the payload of an odd entry embeds its caller's address
ActionOf(type, path, i) ==
    LET caller  == IF path = << >> THEN SenderAddr ELSE ReceiverAddr
        payload == IF i % 2 = 1 THEN Selector \o caller ELSE Selector
    IN  IF type = "Call"
        THEN [type |-> "Call", from |-> caller, to |-> ReceiverAddr,
              input |-> payload, value |-> i]
        ELSE IF type = "Create"
        THEN [type |-> "Create", from |-> caller, init |-> payload, value |-> i]
        ELSE [type |-> "Suicide"]

TraceOf(paths, types) ==
    [i \in 1..Len(paths) |->
        [ trace_address |-> paths[i],
          subtraces     |-> Cardinality({j \in 1..Len(paths) :
                                            IsChildOf(paths[j], paths[i])}),
          action        |-> ActionOf(types[i], paths[i], i) ]]

TracesOfSize(n) ==
    {TraceOf(ps, ts) : ps \in PreOrders(n), ts \in [1..n -> ActionTypes]}

TracesUpTo(n) == UNION {TracesOfSize(k) : k \in 1..n}

BlockTrace(sd, tr) == [state_diff |-> sd, trace |-> tr]

(***************************************************************************)
(* Results of Simulate::run: Ok(..), a propagated error, or a panic.       *)
(***************************************************************************)
Ok(v) == [kind |-> "Ok", val |-> v]

Err == [kind |-> "Err"]

Panic == [kind |-> "Panic"]

Transaction(to_, nonce_, bn) ==
    [from |-> SenderAddr, to |-> to_, nonce |-> nonce_, block_number |-> bn]

\* state_diff.0.get(&addr)
GetDiff(sd, addr) == IF addr \in DOMAIN sd THEN Some(sd[addr]) ELSE None

analyzerVars == << a_diff, a_nonce, a_out >>

mockVars == << m_data, m_from, m_to, m_out >>

traceVars == << trace_map, tx_queue >>

profitVars == << from_account_diff, to_account_diff, valuable >>

(***************************************************************************)
(* Simulate::run, lines 59-79                                              *)
(***************************************************************************)
\* the transactions get_transaction may return
RunTransactions ==
    {Transaction(t, 0, b) :
        t \in {None, Some(ReceiverAddr)},
        b \in {None} \cup {Some(n) : n \in 0..MaxBlock}}

\* line 64: self.get_transaction(tx_hash).await?
GetTransaction ==
    /\ pc = "run"
    /\ \/ /\ result' = Err
          /\ pc' = "done"
          /\ tx' = tx
       \/ /\ result' = Ok(None)
          /\ pc' = "done"
          /\ tx' = None
       \/ \E t \in RunTransactions :
             /\ tx' = Some(t)
             /\ pc' = "select_block"
             /\ result' = result
    /\ UNCHANGED << contract, rewind, block, trace, profitVars, eth_profit,
                    traceVars, analyzerVars, mockVars >>

\* lines 65-69: the block to trace at; U64::sub panics below zero
SelectBlock ==
    /\ pc = "select_block"
    /\ LET bn == tx.val.block_number
       IN  IF bn.some /\ rewind /\ bn.val = 0
           THEN /\ result' = Panic
                /\ pc' = "done"
                /\ block' = block
           ELSE /\ block' = IF bn.some /\ rewind THEN Some(bn.val - 1)
                            ELSE IF bn.some THEN Some(bn.val)
                            ELSE None
                /\ pc' = "trace_call"
                /\ result' = result
    /\ UNCHANGED << contract, rewind, tx, trace, profitVars, eth_profit,
                    traceVars, analyzerVars, mockVars >>

ProfitDiff == AccountDiff(Changed(1, 2), Changed(0, 1))

LossDiff == AccountDiff(Changed(2, 1), Changed(0, 1))

\* the state diffs trace_call may return to Simulate::run
RunStateDiffs ==
    { None,
      Some([a \in {} |-> ProfitDiff]),
      Some([a \in {SenderAddr} |-> ProfitDiff]),
      Some([a \in {SenderAddr, ReceiverAddr} |->
               IF a = SenderAddr THEN LossDiff ELSE ProfitDiff]) }

\* the entry lists trace_call may return to Simulate::run
RunTraces == {None, Some(<< >>)} \cup {Some(t) : t \in TracesUpTo(MaxRunNodes)}

(***************************************************************************)
(* Simulate::get_valuable_trace, lines 81-111                              *)
(***************************************************************************)
\* variant: the negation of invalid_nonce is dropped
SenderProfitable_NegationDropped(a) == a.increase_balance /\ a.invalid_nonce

\* line 92: the sender's analysis shows a profit
SenderProfitable(a) == a.increase_balance /\ ~a.invalid_nonce

\* variant: the receiver's profit is not compared with the sender's figure
ReceiverProfitable_NoComparison(a, fa) ==
    a.increase_balance /\ ~a.invalid_nonce

\* lines 99-101: the receiver's analysis shows a profit larger than the
\* sender's balance difference
ReceiverProfitable(a, fa) ==
    /\ a.increase_balance
    /\ ~a.invalid_nonce
    /\ a.balance_diff > fa.balance_diff

\* lines 86-88: self.trace_call(..).await?
TraceCall ==
    /\ pc = "trace_call"
    /\ \/ /\ result' = Err
          /\ pc' = "done"
          /\ trace' = trace
       \/ \E sd \in RunStateDiffs, tr \in RunTraces :
             /\ trace' = Some(BlockTrace(sd, tr))
             /\ pc' = "analyze_sender"
             /\ result' = result
    /\ UNCHANGED << contract, rewind, tx, block, profitVars, eth_profit,
                    traceVars, analyzerVars, mockVars >>

\* lines 89-94: the sender's diff
AnalyzeSender ==
    /\ pc = "analyze_sender"
    /\ LET sd == trace.val.state_diff
           d  == IF sd.some THEN GetDiff(sd.val, tx.val.from) ELSE None
           a  == AnalyzeAccountDiff_run(d.val, Some(tx.val.nonce))
       IN  IF ~d.some
           THEN /\ valuable' = None
                /\ pc' = "valuable_return"
                /\ from_account_diff' = from_account_diff
           ELSE /\ from_account_diff' = a
                /\ IF SenderProfitable(a)
                   THEN /\ valuable' = Some(a.balance_diff)
                        /\ pc' = "valuable_return"
                   ELSE /\ valuable' = valuable
                        /\ pc' = "analyze_receiver"
    /\ UNCHANGED << contract, rewind, tx, block, trace, to_account_diff,
                    eth_profit, traceVars, result, analyzerVars, mockVars >>

\* lines 96-110: the receiver's diff
AnalyzeReceiver ==
    /\ pc = "analyze_receiver"
    /\ LET sd == trace.val.state_diff.val
           d  == IF tx.val.to.some THEN GetDiff(sd, tx.val.to.val) ELSE None
           a  == AnalyzeAccountDiff_run(d.val, None)
       IN  IF ~d.some
           THEN /\ valuable' = None
                /\ to_account_diff' = to_account_diff
           ELSE /\ to_account_diff' = a
                /\ valuable' =
                     IF ReceiverProfitable(a, from_account_diff)
                     THEN Some(a.balance_diff)
                     ELSE None
    /\ pc' = "valuable_return"
    /\ UNCHANGED << contract, rewind, tx, block, trace, from_account_diff,
                    eth_profit, traceVars, result, analyzerVars, mockVars >>

\* line 70 of Simulate::run: no valuable trace, no plan
ValuableReturn ==
    /\ pc = "valuable_return"
    /\ IF valuable.some
       THEN /\ pc' = "trace_to_tx"
            /\ result' = result
       ELSE /\ pc' = "done"
            /\ result' = Ok(None)
    /\ UNCHANGED << contract, rewind, tx, block, trace, profitVars, eth_profit,
                    traceVars, analyzerVars, mockVars >>

(***************************************************************************)
(* Simulate::trace_to_tx, lines 119-152                                    *)
(***************************************************************************)
\* lines 120-129: the key map of the entry list
BuildMap ==
    /\ pc = "trace_to_tx"
    /\ tx_queue' = << >>
    /\ IF trace.val.trace.some
       THEN /\ trace_map' = BuildTraceMap(trace.val.trace.val)
            /\ pc' = "origin_call"
       ELSE /\ trace_map' = trace_map
            /\ pc' = "trace_to_tx_return"
    /\ UNCHANGED << contract, rewind, tx, block, trace, profitVars, eth_profit,
                    result, analyzerVars, mockVars >>

\* variant: an origin call that cannot be translated leaves an empty batch
PushOrigin_EmptyBatch(queue, r) ==
    Append(queue, IF r.some THEN << r.val >> ELSE << >>)

\* lines 133-135: the queue after the origin call: its call alone is pushed
\* when parse_tx_trace translates it, nothing otherwise
PushOrigin(queue, r) ==
    IF r.some THEN Append(queue, << r.val >>) ELSE queue

\* lines 131-135: trace_map.get(&0).unwrap() and the root's call
OriginCall ==
    /\ pc = "origin_call"
    /\ IF 0 \notin DOMAIN trace_map
       THEN /\ result' = Panic
            /\ pc' = "done"
            /\ tx_queue' = tx_queue
       ELSE /\ tx_queue' = PushOrigin(tx_queue,
                                      parse_tx_trace(trace_map[0], contract))
            /\ pc' = "internal_call"
            /\ result' = result
    /\ UNCHANGED << contract, rewind, tx, block, trace, profitVars, eth_profit,
                    trace_map, analyzerVars, mockVars >>

\* lines 136-151: the calls of keys 1..origin_call.subtraces
InternalCall ==
    /\ pc = "internal_call"
    /\ LET n == trace_map[0].subtraces
       IN  IF \E i \in 1..n : i \notin DOMAIN trace_map
           THEN /\ result' = Panic
                /\ pc' = "done"
                /\ tx_queue' = tx_queue
           ELSE /\ LET l == InternalTxList(trace_map, 1, n, contract)
                   IN  tx_queue' = IF Len(l) > 0 THEN Append(tx_queue, l)
                                   ELSE tx_queue
                /\ pc' = "trace_to_tx_return"
                /\ result' = result
    /\ UNCHANGED << contract, rewind, tx, block, trace, profitVars, eth_profit,
                    trace_map, analyzerVars, mockVars >>

\* lines 71-78 of Simulate::run
RunReturn ==
    /\ pc = "trace_to_tx_return"
    /\ result' = IF Len(tx_queue) > 0
                 THEN Ok(Some([plan |-> tx_queue, profit |-> valuable.val]))
                 ELSE Ok(None)
    /\ pc' = "done"
    /\ UNCHANGED << contract, rewind, tx, block, trace, profitVars, eth_profit,
                    traceVars, analyzerVars, mockVars >>

Init ==
    /\ pc = "run"
    /\ contract \in {None, Some(ContractAddr)}
    /\ rewind \in BOOLEAN
    /\ tx = Unset
    /\ block = Unset
    /\ trace = Unset
    /\ from_account_diff = Unset
    /\ to_account_diff = Unset
    /\ valuable = Unset
    /\ eth_profit = Unset
    /\ trace_map = Unset
    /\ tx_queue = Unset
    /\ result = Unset
    /\ a_diff = Unset
    /\ a_nonce = Unset
    /\ a_out = Unset
    /\ m_data = Unset
    /\ m_from = Unset
    /\ m_to = Unset
    /\ m_out = Unset

Next ==
    \/ GetTransaction
    \/ SelectBlock
    \/ TraceCall
    \/ AnalyzeSender
    \/ AnalyzeReceiver
    \/ ValuableReturn
    \/ BuildMap
    \/ OriginCall
    \/ InternalCall
    \/ RunReturn

Spec == Init /\ [][Next]_vars

(***************************************************************************)
(* The analyzer alone: AnalyzeAccountDiff::run on every diff and nonce.    *)
(***************************************************************************)
BalanceValues == (0..MaxBal) \cup {100, 150}

NonceValues == (0..MaxNonce) \cup {5, 6}

RunAnalyzer ==
    /\ pc = "analyze"
    /\ a_out' = AnalyzeAccountDiff_run(a_diff, a_nonce)
    /\ pc' = "done"
    /\ UNCHANGED << contract, rewind, tx, block, trace, profitVars, eth_profit,
                    traceVars, result, a_diff, a_nonce, mockVars >>

InitDiff ==
    /\ pc = "analyze"
    /\ a_diff \in {AccountDiff(b, n) : b \in DiffsOver(BalanceValues),
                                       n \in DiffsOver(NonceValues)}
    /\ a_nonce \in {None} \cup {Some(n) : n \in NonceValues}
    /\ a_out = Unset
    /\ contract = None
    /\ rewind = FALSE
    /\ tx = Unset
    /\ block = Unset
    /\ trace = Unset
    /\ from_account_diff = Unset
    /\ to_account_diff = Unset
    /\ valuable = Unset
    /\ eth_profit = Unset
    /\ trace_map = Unset
    /\ tx_queue = Unset
    /\ result = Unset
    /\ m_data = Unset
    /\ m_from = Unset
    /\ m_to = Unset
    /\ m_out = Unset

NextDiff == RunAnalyzer

SpecDiff == InitDiff /\ [][NextDiff]_vars

(***************************************************************************)
(* The profit detectors on every transaction and state diff.               *)
(***************************************************************************)
\* state::eth::run, eth.rs lines 5-34. The two profits are added in U256;
\* at the balances of the model the sum is far below 2^256.
eth_run(tx_, trace_) ==
    LET sd == trace_.state_diff
        fd == IF sd.some THEN GetDiff(sd.val, tx_.from) ELSE None
        fa == DiffAnalysis_init(fd.val, Some(tx_.nonce))
        td == IF fd.some /\ tx_.to.some THEN GetDiff(sd.val, tx_.to.val) ELSE None
        ta == DiffAnalysis_init(td.val, None)
        p1 == IF fd.some /\ fa.increase_balance /\ ~fa.invalid_nonce
              THEN fa.balance_diff ELSE 0
        p2 == IF /\ td.some
                 /\ ta.increase_balance
                 /\ ~ta.invalid_nonce
                 /\ ta.balance_diff > fa.balance_diff
              THEN ta.balance_diff ELSE 0
    IN  IF p1 + p2 = 0 THEN None ELSE Some(p1 + p2)

EthRun ==
    /\ pc = "valuable_return"
    /\ eth_profit' = eth_run(tx.val, trace.val)
    /\ pc' = "done"
    /\ UNCHANGED << contract, rewind, tx, block, trace, profitVars, traceVars,
                    result, analyzerVars, mockVars >>

ProfitBalanceDiffs ==
    {Same, Born(1), Died(1)} \cup {Changed(f, t) : f \in 0..MaxBal, t \in 0..MaxBal}

ProfitNonceDiffs == {Same} \cup {Changed(n, n + 1) : n \in 0..MaxNonce}

ProfitAccountDiffs ==
    {AccountDiff(b, n) : b \in ProfitBalanceDiffs, n \in ProfitNonceDiffs}

ProfitStateDiffs ==
    {None} \cup
    {Some(m) : m \in UNION {[D -> ProfitAccountDiffs] :
                               D \in SUBSET {SenderAddr, ReceiverAddr}}}

ProfitTransactions ==
    {Transaction(t, n, None) :
        t \in {None, Some(SenderAddr), Some(ReceiverAddr)}, n \in 0..MaxNonce}

\* balance 100 -> 150, nonce 5 -> 6, transaction nonce 5
ScenarioDiff == AccountDiff(Changed(100, 150), Changed(5, 6))

ProfitInputs ==
    {[t |-> t, sd |-> sd] : t \in ProfitTransactions, sd \in ProfitStateDiffs}
    \cup {[t |-> Transaction(Some(ReceiverAddr), 5, None),
           sd |-> Some([a \in {SenderAddr} |-> ScenarioDiff])]}

InitProfit ==
    /\ pc = "analyze_sender"
    /\ \E in \in ProfitInputs :
          /\ tx = Some(in.t)
          /\ trace = Some(BlockTrace(in.sd, None))
    /\ contract = None
    /\ rewind = FALSE
    /\ block = None
    /\ from_account_diff = Unset
    /\ to_account_diff = Unset
    /\ valuable = Unset
    /\ eth_profit = Unset
    /\ trace_map = Unset
    /\ tx_queue = Unset
    /\ result = Unset
    /\ a_diff = Unset
    /\ a_nonce = Unset
    /\ a_out = Unset
    /\ m_data = Unset
    /\ m_from = Unset
    /\ m_to = Unset
    /\ m_out = Unset

NextProfit ==
    \/ AnalyzeSender
    \/ AnalyzeReceiver
    \/ EthRun

SpecProfit == InitProfit /\ [][NextProfit]_vars

(***************************************************************************)
(* trace_to_tx on every pre-order trace of at most MaxNodes entries.       *)
(***************************************************************************)
InitTrace ==
    /\ pc = "trace_to_tx"
    /\ \/ trace \in {Some(BlockTrace(None, tr)) : tr \in {None, Some(<< >>)}}
       \/ \E n \in 1..MaxNodes :
             \E ps \in PreOrders(n), ts \in [1..n -> ActionTypes] :
                trace = Some(BlockTrace(None, Some(TraceOf(ps, ts))))
    /\ contract \in {None, Some(ContractAddr)}
    /\ rewind = FALSE
    /\ tx = Unset
    /\ block = None
    /\ from_account_diff = Unset
    /\ to_account_diff = Unset
    /\ valuable = Unset
    /\ eth_profit = Unset
    /\ trace_map = Unset
    /\ tx_queue = Unset
    /\ result = Unset
    /\ a_diff = Unset
    /\ a_nonce = Unset
    /\ a_out = Unset
    /\ m_data = Unset
    /\ m_from = Unset
    /\ m_to = Unset
    /\ m_out = Unset

NextTrace ==
    \/ BuildMap
    \/ OriginCall
    \/ InternalCall

SpecTrace == InitTrace /\ [][NextTrace]_vars

(***************************************************************************)
(* mock_tx_data on payloads built from the caller's address.               *)
(***************************************************************************)
MockAddresses ==
    { RepAddr(0), RepAddr(17), RepAddr(34), WordAddr(Selector),
      SenderAddr, ReceiverAddr }

MockTxData ==
    /\ pc = "mock_tx_data"
    /\ m_out' = mock_tx_data(m_data, m_from, m_to)
    /\ pc' = "done"
    /\ UNCHANGED << contract, rewind, tx, block, trace, profitVars, eth_profit,
                    traceVars, result, analyzerVars, m_data, m_from, m_to >>

InitData ==
    /\ pc = "mock_tx_data"
    /\ m_from \in MockAddresses
    /\ m_to \in MockAddresses
    /\ m_data \in {Selector, Selector \o m_from, m_from \o Selector}
    /\ m_out = Unset
    /\ contract = None
    /\ rewind = FALSE
    /\ tx = Unset
    /\ block = Unset
    /\ trace = Unset
    /\ from_account_diff = Unset
    /\ to_account_diff = Unset
    /\ valuable = Unset
    /\ eth_profit = Unset
    /\ trace_map = Unset
    /\ tx_queue = Unset
    /\ result = Unset
    /\ a_diff = Unset
    /\ a_nonce = Unset
    /\ a_out = Unset

NextData == MockTxData

SpecData == InitData /\ [][NextData]_vars

(***************************************************************************)
(* The analyzer and the detectors together: either kind of initial state.  *)
(***************************************************************************)
InitAnalysis == InitDiff \/ InitProfit

NextAnalysis ==
    \/ RunAnalyzer
    \/ AnalyzeSender
    \/ AnalyzeReceiver
    \/ EthRun

SpecAnalysis == InitAnalysis /\ [][NextAnalysis]_vars

(***************************************************************************)
(* Properties of the analyzer                                              *)
(***************************************************************************)
AnalyzerRan == pc = "done" /\ a_out # Unset

\* C7: when an expected nonce is supplied and differs from the nonce the
\* diff records before execution (a Changed nonce diff's from), the analysis
\* is nonce-invalid whatever the balance diff is; when no expected nonce is
\* supplied, no diff is nonce-invalid.
C7_NonceGating ==
    AnalyzerRan =>
        /\ (/\ a_nonce.some
            /\ a_diff.nonce.kind = "Changed"
            /\ a_diff.nonce.from # a_nonce.val) => a_out.invalid_nonce
        /\ ~a_nonce.some => ~a_out.invalid_nonce

C7_Witness ==
    /\ AnalyzerRan
    /\ a_nonce = Some(6)
    /\ a_diff = AccountDiff(Changed(100, 150), Changed(5, 6))
    /\ a_out.invalid_nonce
    /\ a_out.increase_balance

\* the sender's diff of the state diff, when the trace has one
SenderDiff ==
    IF trace # Unset /\ tx # Unset /\ trace.val.state_diff.some
    THEN GetDiff(trace.val.state_diff.val, tx.val.from)
    ELSE None

\* the receiver's diff of the state diff, when the transaction has a receiver
ReceiverDiff ==
    IF trace # Unset /\ tx # Unset /\ trace.val.state_diff.some /\ tx.val.to.some
    THEN GetDiff(trace.val.state_diff.val, tx.val.to.val)
    ELSE None

IsIncrease(d) == d.balance.kind = "Changed" /\ d.balance.to > d.balance.from

\* the magnitude |to - from| of a diff's balance change, 0 when unchanged
Magnitude(d) ==
    IF d.balance.kind # "Changed" THEN 0
    ELSE IF d.balance.to >= d.balance.from
         THEN d.balance.to - d.balance.from
         ELSE d.balance.from - d.balance.to

\* C8: for a balance diff changed(from, to) the analysis has
\* increased = (to > from) and magnitude = |to - from|; for an unchanged
\* balance increased = false and magnitude = 0. Balance 100 -> 150 with nonce
\* 5 -> 6 and expected nonce 5 is analysed as {true, 50, false}, and the
\* detector returns 50 for a sender with that diff.
C8_AnalyzerSign ==
    /\ AnalyzerRan =>
          /\ a_diff.balance.kind = "Changed" =>
                /\ a_out.increase_balance = (a_diff.balance.to > a_diff.balance.from)
                /\ a_out.balance_diff = Magnitude(a_diff)
          /\ a_diff.balance.kind = "Same" =>
                /\ ~a_out.increase_balance
                /\ a_out.balance_diff = 0
          /\ (a_diff = ScenarioDiff /\ a_nonce = Some(5)) =>
                a_out = [increase_balance |-> TRUE, balance_diff |-> 50,
                         invalid_nonce |-> FALSE]
    /\ (/\ pc = "valuable_return"
        /\ SenderDiff = Some(ScenarioDiff)
        /\ tx.val.nonce = 5) =>
          /\ from_account_diff = [increase_balance |-> TRUE, balance_diff |-> 50,
                                  invalid_nonce |-> FALSE]
          /\ valuable = Some(50)

C8_Witness ==
    /\ pc = "valuable_return"
    /\ SenderDiff = Some(ScenarioDiff)
    /\ tx.val.nonce = 5
    /\ valuable = Some(50)

(***************************************************************************)
(* Properties of the profit detector, Simulate::get_valuable_trace         *)
(***************************************************************************)
Detected == pc = "valuable_return" /\ valuable # Unset

\* the sender's diff is a balance increase and its nonce diff starts at the
\* transaction's nonce
SenderValid ==
    /\ SenderDiff.some
    /\ IsIncrease(SenderDiff.val)
    /\ SenderDiff.val.nonce.kind = "Changed"
    /\ SenderDiff.val.nonce.from = tx.val.nonce

\* the sender's nonce diff starts at another nonce than the transaction's
SenderNonceInvalid ==
    /\ SenderDiff.some
    /\ SenderDiff.val.nonce.kind = "Changed"
    /\ SenderDiff.val.nonce.from # tx.val.nonce

ReceiverIncrease == ReceiverDiff.some /\ IsIncrease(ReceiverDiff.val)

\* C1 as claimed: with a valid sender increase S and a receiver increase R,
\* the detector returns R when R > S and S when R <= S.
C1_Original ==
    (Detected /\ SenderValid /\ ReceiverIncrease) =>
        valuable = Some(IF Magnitude(ReceiverDiff.val) > Magnitude(SenderDiff.val)
                        THEN Magnitude(ReceiverDiff.val)
                        ELSE Magnitude(SenderDiff.val))

\* C1 as amended: with a valid sender increase S and a receiver increase R,
\* the detector returns S, whether R > S or R <= S; the receiver's diff is
\* not analysed.
C1_SenderFirst ==
    (Detected /\ SenderValid /\ ReceiverIncrease) =>
        /\ valuable = Some(Magnitude(SenderDiff.val))
        /\ to_account_diff = Unset

C1_Witness ==
    /\ Detected
    /\ SenderValid
    /\ ReceiverIncrease
    /\ Magnitude(ReceiverDiff.val) > Magnitude(SenderDiff.val)
    /\ valuable = Some(Magnitude(SenderDiff.val))

\* C2 as claimed: with a nonce-invalid sender diff and a receiver increase
\* R, the detector returns R whatever the sender's magnitude.
C2_Original ==
    (Detected /\ SenderNonceInvalid /\ ReceiverIncrease) =>
        valuable = Some(Magnitude(ReceiverDiff.val))

\* C2 as amended: with a nonce-invalid sender diff of magnitude S and a
\* receiver increase R, the detector returns R when R > S and the absent
\* result when R <= S.
C2_ReceiverAboveSender ==
    (Detected /\ SenderNonceInvalid /\ ReceiverIncrease) =>
        valuable = IF Magnitude(ReceiverDiff.val) > Magnitude(SenderDiff.val)
                   THEN Some(Magnitude(ReceiverDiff.val))
                   ELSE None

C2_Witness ==
    /\ Detected
    /\ SenderNonceInvalid
    /\ ReceiverIncrease
    /\ Magnitude(SenderDiff.val) > 0
    /\ Magnitude(ReceiverDiff.val) > Magnitude(SenderDiff.val)
    /\ valuable = Some(Magnitude(ReceiverDiff.val))

\* state::eth::run adds the two profits: with a valid sender increase S and
\* a receiver increase R it returns S + R when R > S and S when R <= S
Eth_SumsBoth ==
    (eth_profit # Unset /\ SenderValid /\ ReceiverIncrease) =>
        eth_profit = Some(IF Magnitude(ReceiverDiff.val) > Magnitude(SenderDiff.val)
                          THEN Magnitude(SenderDiff.val) + Magnitude(ReceiverDiff.val)
                          ELSE Magnitude(SenderDiff.val))

\* state::eth::run with a nonce-invalid sender: R when R > S, else absent
Eth_ReceiverAboveSender ==
    (eth_profit # Unset /\ SenderNonceInvalid /\ ReceiverIncrease) =>
        eth_profit = IF Magnitude(ReceiverDiff.val) > Magnitude(SenderDiff.val)
                     THEN Some(Magnitude(ReceiverDiff.val))
                     ELSE None

(***************************************************************************)
(* Properties of the reconstruction, Simulate::trace_to_tx                 *)
(***************************************************************************)
HasEntries ==
    /\ trace # Unset
    /\ trace.val.trace.some
    /\ Len(trace.val.trace.val) > 0

TraceList == trace.val.trace.val

\* the entry of the list at a trace address
EntryAt(path) ==
    TraceList[CHOOSE i \in 1..Len(TraceList) : TraceList[i].trace_address = path]

RootEntry == EntryAt(<< >>)

\* the root's direct children, in child order
ChildEntries == [i \in 1..RootEntry.subtraces |-> EntryAt(<< i - 1 >>)]

Rewritable(e) == e.action.type \in {"Call", "Create"}

Rewritten(e) == parse_tx_trace(e, contract).val

RewrittenAll(entries) == [i \in 1..Len(entries) |-> Rewritten(entries[i])]

\* the rewritten direct children, the untranslatable ones left out
RewrittenChildren == RewrittenAll(SelectSeq(ChildEntries, Rewritable))

Reconstructed == pc = "trace_to_tx_return" /\ HasEntries

HappyPath ==
    /\ Rewritable(RootEntry)
    /\ \A i \in 1..Len(ChildEntries) : Rewritable(ChildEntries[i])

\* some entry below the first level has the key of a direct child
DeepCollision ==
    \E j \in 1..Len(TraceList) :
        /\ Len(TraceList[j].trace_address) >= 2
        /\ TraceKey(TraceList[j].trace_address) \in 1..RootEntry.subtraces

\* C3 as claimed: no two entries of one trace have the same key, and the
\* empty path has key 0.
C3_KeyInjective ==
    (pc = "origin_call" /\ HasEntries) =>
        /\ TraceKey(<< >>) = 0
        /\ \A i, j \in 1..Len(TraceList) :
              TraceList[i].trace_address # TraceList[j].trace_address =>
                  TraceKey(TraceList[i].trace_address)
                      # TraceKey(TraceList[j].trace_address)
        /\ Cardinality(DOMAIN trace_map) = Len(TraceList)

\* C10: once the key map of a pre-order trace is built, key 0 holds the root
\* and every key i in 1..root.subtraces holds the root's direct child of
\* address [i - 1], not a deeper entry with the same key.
C10_DirectChildLookup ==
    (pc = "origin_call" /\ HasEntries) =>
        /\ 0 \in DOMAIN trace_map
        /\ trace_map[0] = RootEntry
        /\ \A i \in 1..RootEntry.subtraces :
              /\ i \in DOMAIN trace_map
              /\ trace_map[i].trace_address = << i - 1 >>
              /\ trace_map[i] = ChildEntries[i]

C10_Witness ==
    /\ pc = "origin_call"
    /\ HasEntries
    /\ DeepCollision
    /\ \A i \in 1..RootEntry.subtraces : trace_map[i] = ChildEntries[i]

C6_SubstitutionExact ==
    (pc = "done" /\ m_out # Unset /\ m_data = Selector \o m_from) =>
        /\ FormatBytes(m_out) = FormatBytes(Selector) \o FormatAddress(m_to)
        /\ Len(m_out) = Len(m_data)
        /\ m_from # m_to => m_out # m_data

(***************************************************************************)
(* Properties of the orchestrator, Simulate::run                           *)
(***************************************************************************)
\* the transaction was not found, or the trace came without a state diff or
\* without entries
MissingData ==
    \/ tx = None
    \/ /\ trace # Unset
       /\ \/ ~trace.val.state_diff.some
          \/ ~trace.val.trace.some
          \/ trace.val.trace.val = << >>

\* C9 as claimed: when the collaborator calls succeed and the transaction
\* is not found, or the trace has no state diff, or the trace has no entries
\* (list absent or empty, also with a profit in the state diff), run
\* returns the absent result and does not fault.
C9_MissingDataIsAbsent ==
    (pc = "done" /\ result # Err /\ MissingData) => result = Ok(None)

====
